---- MODULE Spec2Model ----
(***************************************************************************)
(* Model of the barelang lexer (barelang-lexer/src/lib.rs).                *)
(*                                                                         *)
(* A string is the sequence of its UTF-8 bytes (0..255), as a Rust &str    *)
(* is; a char is its Unicode code point.  Byte offsets into a string are   *)
(* 0-based as in the source, so the byte at offset i of s is s[i + 1].     *)
(* One Lexer is modelled: its fields whole, rest and byte, the value       *)
(* returned by the last call of next() and the list of the items yielded   *)
(* so far.  other is a second Lexer over the same input, a record of the   *)
(* same five parts.                                                        *)
(***************************************************************************)
EXTENDS Integers, Sequences, FiniteSets, TLC

VARIABLES whole, rest, byte, last, items, other

vars == <<whole, rest, byte, last, items, other>>

(***************************************************************************)
(* Bounds of the inputs.                                                   *)
(***************************************************************************)
MaxLen == 3

\* longest identifier of the inputs "task <ident> {}"
MaxIdent == 4

(***************************************************************************)
(* Characters used to build the inputs (code points):                      *)
(*   'a' '_' '3' '{' '}' ' ' '\n' U+3000 (3-byte whitespace)               *)
(*   '#' and U+00E9 (2-byte letter e-acute)                                *)
(***************************************************************************)
Alphabet == {97, 95, 51, 123, 125, 32, 10, 12288, 35, 233}

\* "task" and "Task" as sequences of chars, the longer pieces of the inputs
TaskChars == <<116, 97, 115, 107>>

UpperTaskChars == <<84, 97, 115, 107>>

Fragments == {<< >>, TaskChars, UpperTaskChars}

StrUpTo(n) == UNION {[1..k -> Alphabet] : k \in 0..n}

\* Option::None of str::find
NotFound == -1

(***************************************************************************)
(* UTF-8: char::len_utf8, the encoding of a char, str::chars().next(),     *)
(* str::is_char_boundary and the slicing of a str.                         *)
(***************************************************************************)
LenUtf8(c) == IF c < 128 THEN 1 ELSE IF c < 2048 THEN 2 ELSE IF c < 65536 THEN 3 ELSE 4

EncodeChar(c) ==
  IF c < 128 THEN <<c>>
  ELSE IF c < 2048 THEN <<192 + (c \div 64), 128 + (c % 64)>>
  ELSE IF c < 65536 THEN <<224 + (c \div 4096), 128 + ((c \div 64) % 64), 128 + (c % 64)>>
  ELSE <<240 + (c \div 262144), 128 + ((c \div 4096) % 64),
         128 + ((c \div 64) % 64), 128 + (c % 64)>>

RECURSIVE EncodeStr(_)
EncodeStr(cs) ==
  IF cs = << >> THEN << >> ELSE EncodeChar(Head(cs)) \o EncodeStr(Tail(cs))

\* the byte at 0-based offset i of s (a continuation byte beyond the end)
ByteAt(s, i) == IF i >= 0 /\ i < Len(s) THEN s[i + 1] ELSE 128

IsCharBoundary(s, i) ==
  \/ i = 0
  \/ i = Len(s)
  \/ i > 0 /\ i < Len(s) /\ ~(ByteAt(s, i) \in 128..191)

\* &s[i..]
SliceFrom(s, i) == IF i >= Len(s) THEN << >> ELSE SubSeq(s, i + 1, Len(s))

\* &s[..i]
SliceTo(s, i) == IF i <= 0 THEN << >> ELSE SubSeq(s, 1, IF i > Len(s) THEN Len(s) ELSE i)

\* the char that starts at byte offset i of s
CharAt(s, i) ==
  LET b0 == ByteAt(s, i)
      b1 == ByteAt(s, i + 1) - 128
      b2 == ByteAt(s, i + 2) - 128
      b3 == ByteAt(s, i + 3) - 128
  IN  IF b0 < 128 THEN b0
      ELSE IF b0 < 224 THEN (b0 - 192) * 64 + b1
      ELSE IF b0 < 240 THEN (b0 - 224) * 4096 + b1 * 64 + b2
      ELSE (b0 - 240) * 262144 + b1 * 4096 + b2 * 64 + b3

\* self.rest.chars().next()
FirstChar(r) == CharAt(r, 0)

\* chars.as_str() after one chars.next()
CharsAsStr(r) == SliceFrom(r, LenUtf8(FirstChar(r)))

(***************************************************************************)
(* Character classes of the match on the first character.                  *)
(***************************************************************************)
\* ASCII whitespace only
IsWhitespaceAscii(c) == c \in 9..13 \/ c = 32

\* char::is_whitespace: the Unicode White_Space property
IsWhitespace(c) ==
  \/ c \in 9..13
  \/ c \in {32, 133, 160, 5760, 8232, 8233, 8239, 8287, 12288}
  \/ c \in 8192..8202

\* identifiers started by any identifier character, digits included
IsIdentStartOrDigit(c) == c \in 97..122 \/ c \in 65..90 \/ c = 95 \/ c \in 48..57

\* identifiers started by a lower-case letter or an underscore only
IsIdentStartLower(c) == c \in 97..122 \/ c = 95

\* 'a'..='z' | 'A'..='Z' | '_'
IsIdentStart(c) == c \in 97..122 \/ c \in 65..90 \/ c = 95

\* identifier characters by a Unicode test: U+00E9 is alphanumeric
IsIdentCharUnicode(c) ==
  c \in 97..122 \/ c \in 65..90 \/ c = 95 \/ c \in 48..57 \/ c = 233

\* identifier characters without the digits
IsIdentCharNoDigit(c) == c \in 97..122 \/ c \in 65..90 \/ c = 95

\* 'a'..='z' | 'A'..='Z' | '_' | '0'..='9'
IsIdentChar(c) == c \in 97..122 \/ c \in 65..90 \/ c = 95 \/ c \in 48..57

\* the arms of the two braces taken for each other
StartedBracesSwapped(c) ==
  IF c = 123 THEN "RightBrace"
  ELSE IF c = 125 THEN "LeftBrace"
  ELSE IF IsIdentStart(c) THEN "Ident"
  ELSE IF IsWhitespace(c) THEN "Whitespace"
  ELSE "Error"

\* the arm of `match c` that is taken, arms tried in source order
Started(c) ==
  IF c = 123 THEN "LeftBrace"
  ELSE IF c = 125 THEN "RightBrace"
  ELSE IF IsIdentStart(c) THEN "Ident"
  ELSE IF IsWhitespace(c) THEN "Whitespace"
  ELSE "Error"

(***************************************************************************)
(* The values next() returns.                                              *)
(***************************************************************************)
\* None
EndOfInput == [type |-> "eof"]

\* Some(Ok(Token { origin, offset, kind }))
Token(origin, offset, kind) ==
  [type |-> "token", kind |-> kind, origin |-> origin, offset |-> offset]

\* the offset taken after the cursor moved past the character
JustAtCursor(kind, c_str, c_at) == Token(c_str, c_at + Len(c_str), kind)

\* the closure `just`: a token of the single character c_str at c_at
Just(kind, c_str, c_at) == Token(c_str, c_at, kind)

\* the span measured within the character's own text
ErrSpanRelative(b, c) == [offset |-> 0, len |-> LenUtf8(c)]

\* the span started at the cursor after the character
ErrSpanFromCursor(b, c) == [offset |-> b, len |-> LenUtf8(c)]

\* SourceSpan::from(b - c.len_utf8()..b), b the cursor after the character
ErrSpan(b, c) == [offset |-> b - LenUtf8(c), len |-> b - (b - LenUtf8(c))]

\* Some(Err(SingleTokenError { src, token, err_span }))
SingleTokenError(w, c, b) ==
  [type |-> "error", src |-> w, token |-> c, err_span |-> ErrSpan(b, c)]

\* the newline characters among the first n bytes of s
RECURSIVE NewlinesBefore(_, _)
NewlinesBefore(s, n) ==
  IF n <= 0 THEN 0
  ELSE NewlinesBefore(s, n - 1) + (IF ByteAt(s, n - 1) = 10 THEN 1 ELSE 0)

\* SingleTokenError::line: the 1-based line of the error in its source text
Line(e) == 1 + NewlinesBefore(e.src, e.err_span.offset)

\* an abort of the call (arithmetic overflow or a slice that panics)
Panic == [type |-> "panic"]

(***************************************************************************)
(* Identifier recognition.                                                 *)
(***************************************************************************)
\* str::find of the first char at or after byte offset i that is not an
\* identifier character; NotFound when there is none
RECURSIVE FindNotIdent(_, _)
FindNotIdent(s, i) ==
  IF i >= Len(s) THEN NotFound
  ELSE IF ~IsIdentChar(CharAt(s, i)) THEN i
  ELSE FindNotIdent(s, i + LenUtf8(CharAt(s, i)))

\* c_onwards.find(..).unwrap_or(c_onwards.len())
FirstCharThatIsNotAnIdent(c_onwards) ==
  LET f == FindNotIdent(c_onwards, 0)
  IN  IF f = NotFound THEN Len(c_onwards) ELSE f

\* nothing taken beyond the first character of the run
BytesNoneUnaccounted(literal, c) == 0

\* the length of the run with the first character not taken off
BytesOfLiteral(literal, c) == Len(literal)

\* literal.len() - c.len_utf8()
BytesUnaccountedFor(literal, c) == Len(literal) - LenUtf8(c)

\* the keyword recognised as a prefix of the run
KindByPrefix(literal) ==
  IF SliceTo(literal, 4) = EncodeStr(TaskChars) THEN "Task" ELSE "Ident"

\* match literal { "task" => Task, _ => Ident }
Kind(literal) == IF literal = EncodeStr(TaskChars) THEN "Task" ELSE "Ident"

\* the cursor advanced by one byte whatever the character
AdvanceByteOne(b, c) == b + 1

\* self.byte += c.len_utf8()
AdvanceByte(b, c) == b + LenUtf8(c)

\* the cursor set to the count instead of advanced by it
SetUnaccounted(b, n) == n

\* self.byte += bytes_unaccounted_for
AddUnaccounted(b, n) == b + n

\* the arm Started::Ident; r and b are rest and byte after the first char.
\* The subtraction panics below zero (or wraps, and then the slice panics);
\* the slice panics beyond the end of r or off a character boundary.
IdentArm(c, c_at, c_onwards, r, b) ==
  LET literal == SliceTo(c_onwards, FirstCharThatIsNotAnIdent(c_onwards))
      n == BytesUnaccountedFor(literal, c)
  IN  IF n < 0
        THEN [ret |-> Panic, rest |-> r, byte |-> b]
      ELSE IF ~IsCharBoundary(r, n)
        THEN [ret |-> Panic, rest |-> r, byte |-> AddUnaccounted(b, n)]
      ELSE [ret |-> Token(literal, c_at, Kind(literal)),
            rest |-> SliceFrom(r, n), byte |-> AddUnaccounted(b, n)]

\* the scan given up after an error: nothing left to read
ErrorArmHalts(w, c, r, b) ==
  [ret |-> SingleTokenError(w, c, b), rest |-> << >>, byte |-> b]

\* the arm `_` of the match; r and b are rest and byte after the character.
\* self.byte - c.len_utf8() panics below zero.
ErrorArm(w, c, r, b) ==
  IF b < LenUtf8(c)
    THEN [ret |-> Panic, rest |-> r, byte |-> b]
  ELSE [ret |-> SingleTokenError(w, c, b), rest |-> r, byte |-> b]

\* the lexer rewound to the start of its input when it runs out
ExhaustedRewinds(w, r, b) == [ret |-> EndOfInput, rest |-> w, byte |-> 0]

\* chars.next()? on an empty rest: None, the fields as they are
Exhausted(w, r, b) == [ret |-> EndOfInput, rest |-> r, byte |-> b]

(***************************************************************************)
(* One call of next() on a lexer with fields w (whole), r (rest) and       *)
(* b (byte): the returned value and the fields after the call.  The loop   *)
(* of the source is the recursion of the whitespace arm.                   *)
(***************************************************************************)
RECURSIVE LexerNext(_, _, _)
LexerNext(w, r, b) ==
  IF r = << >> THEN Exhausted(w, r, b)
  ELSE
    LET c == FirstChar(r)
        c_at == b
        c_str == SliceTo(r, LenUtf8(c))
        c_onwards == r
        r1 == CharsAsStr(r)
        b1 == AdvanceByte(b, c)
        started == Started(c)
    IN  IF ~IsCharBoundary(r, LenUtf8(c))
          THEN [ret |-> Panic, rest |-> r, byte |-> b]
        ELSE
        CASE started = "LeftBrace" ->
               [ret |-> Just("LeftBrace", c_str, c_at), rest |-> r1, byte |-> b1]
          [] started = "RightBrace" ->
               [ret |-> Just("RightBrace", c_str, c_at), rest |-> r1, byte |-> b1]
          [] started = "Whitespace" ->
               \* `continue`: the loop body again on the fields as they are now
               CHOOSE o \in {LexerNext(w, x.rest, x.byte) :
                               x \in {[rest |-> r1, byte |-> b1]}} : TRUE
          [] started = "Error" -> ErrorArm(w, c, r1, b1)
          [] started = "Ident" -> IdentArm(c, c_at, c_onwards, r1, b1)

\* the items a lexer with fields w, r and b yields until it returns None
RECURSIVE Drain(_, _, _)
Drain(w, r, b) ==
  LET o == LexerNext(w, r, b)
  IN  IF o.ret.type \in {"eof", "panic"} THEN << >>
      ELSE <<o.ret>> \o Drain(w, o.rest, o.byte)

\* Lexer::new(input) iterated to the end
Collect(input) == Drain(input, input, 0)

(***************************************************************************)
(* The state machine: Lexer::new(input), then calls of next().             *)
(***************************************************************************)
\* Lexer::new(input), with no call of next() made yet
NewLexer(input) ==
  [whole |-> input, rest |-> input, byte |-> 0,
   last |-> [type |-> "none"], items |-> << >>]

\* an input: the characters s with mid put in after the first cut of them
Input(s, cut, mid) ==
  EncodeStr(SubSeq(s, 1, cut) \o mid \o SubSeq(s, cut + 1, Len(s)))

\* Lexer::new(input)
Init ==
  /\ \E s \in StrUpTo(MaxLen) : \E cut \in 0..Len(s) : \E mid \in Fragments :
       whole = Input(s, cut, mid)
  /\ rest = whole
  /\ byte = 0
  /\ last = [type |-> "none"]
  /\ items = << >>
  /\ other = NewLexer(whole)

\* <Lexer as Iterator>::next
CallNext ==
  /\ last.type # "panic"
  /\ LET o == LexerNext(whole, rest, byte)
     IN  /\ rest' = o.rest
         /\ byte' = o.byte
         /\ last' = o.ret
         /\ items' = IF o.ret.type \in {"token", "error"}
                       THEN Append(items, o.ret) ELSE items
  /\ UNCHANGED <<whole, other>>

Next == CallNext

Spec == Init /\ [][Next]_vars

(***************************************************************************)
(* The lexer driven by lexer.collect::<Result<Vec<_>, _>>(): the consumer  *)
(* asks for the next item until it gets None or an Err.  The result is     *)
(* Err(last) when last is an error and Ok(items) when last is None.        *)
(***************************************************************************)
\* a consumer that goes on asking after an error
CollectStepPastErrors ==
  /\ last.type # "eof"
  /\ CallNext

\* one step of collect() into a Result
CollectStep ==
  /\ ~(last.type \in {"error", "eof"})
  /\ CallNext

SpecCollect == Init /\ [][CollectStep]_vars

\* Lexer::new(input) over the inputs of up to MaxLen characters of Alphabet
InitPlain ==
  /\ \E s \in StrUpTo(MaxLen) : whole = EncodeStr(s)
  /\ rest = whole
  /\ byte = 0
  /\ last = [type |-> "none"]
  /\ items = << >>
  /\ other = NewLexer(whole)

SpecPlain == InitPlain /\ [][Next]_vars

\* one character of each arm of the match: 'a' '{' U+3000 U+00E9
ArmAlphabet == {97, 123, 12288, 233}

InitArms ==
  /\ \E n \in 0..MaxLen : \E s \in [1..n -> ArmAlphabet] : whole = EncodeStr(s)
  /\ rest = whole
  /\ byte = 0
  /\ last = [type |-> "none"]
  /\ items = << >>
  /\ other = NewLexer(whole)

\* a consumer that keeps calling next(): a call that is due is made
FairSpec == InitArms /\ [][Next]_vars /\ WF_vars(CallNext)

(***************************************************************************)
(* Two lexers over the same input, their calls interleaved in any order.   *)
(***************************************************************************)
\* next() of the second lexer run on the cursor of the first one
CallNextOtherShared ==
  /\ other.last.type # "panic"
  /\ LET o == LexerNext(other.whole, rest, byte)
     IN  /\ rest' = o.rest
         /\ byte' = o.byte
         /\ other' = [other EXCEPT
                        !.rest = o.rest,
                        !.byte = o.byte,
                        !.last = o.ret,
                        !.items = IF o.ret.type \in {"token", "error"}
                                    THEN Append(other.items, o.ret) ELSE other.items]
  /\ UNCHANGED <<whole, last, items>>

\* <Lexer as Iterator>::next of the second lexer
CallNextOther ==
  /\ other.last.type # "panic"
  /\ LET o == LexerNext(other.whole, other.rest, other.byte)
     IN  other' = [other EXCEPT
                     !.rest = o.rest,
                     !.byte = o.byte,
                     !.last = o.ret,
                     !.items = IF o.ret.type \in {"token", "error"}
                                 THEN Append(other.items, o.ret) ELSE other.items]
  /\ UNCHANGED <<whole, rest, byte, last, items>>

NextTwo == CallNext \/ CallNextOther

SpecTwo == InitPlain /\ [][NextTwo]_vars

(***************************************************************************)
(* The lexer over inputs of several lines, those of the test               *)
(* it_fails_with_an_error_when_hitting_an_invalid_char among them.         *)
(***************************************************************************)
\* '\n' ' ' '#' '$' 'a'
LineAlphabet == {10, 32, 35, 36, 97}

\* "task foo {}\n"
TaskFooLine == <<116, 97, 115, 107, 32, 102, 111, 111, 32, 123, 125, 10>>

InitLines ==
  /\ \E n \in 0..MaxLen : \E s \in [1..n -> LineAlphabet] :
       \E cut \in 0..n : \E mid \in {<< >>, TaskFooLine} :
         whole = Input(s, cut, mid)
  /\ rest = whole
  /\ byte = 0
  /\ last = [type |-> "none"]
  /\ items = << >>
  /\ other = NewLexer(whole)

SpecLines == InitLines /\ [][Next]_vars

(***************************************************************************)
(* The lexer over the inputs of prop_test_task_ident: "task <ident> {}",   *)
(* the identifier made of ASCII letters and digits, not started by a       *)
(* digit.                                                                  *)
(***************************************************************************)
\* characters of the identifiers: 't' 'a' 's' 'k' 'Z' '3'
IdentAlphabet == {116, 97, 115, 107, 90, 51}

\* format!("task {} {{}}", ident)
TaskInput(ident) == EncodeStr(<<116, 97, 115, 107, 32>> \o ident \o <<32, 123, 125>>)

InitTaskIdent ==
  /\ \E n \in 1..MaxIdent : \E ident \in [1..n -> IdentAlphabet] :
       /\ ~(ident[1] \in 48..57)
       /\ whole = TaskInput(ident)
  /\ rest = whole
  /\ byte = 0
  /\ last = [type |-> "none"]
  /\ items = << >>
  /\ other = NewLexer(whole)

SpecTaskIdent == InitTaskIdent /\ [][Next]_vars

(***************************************************************************)
(* Vocabulary of the properties, stated on the input text itself.          *)
(***************************************************************************)
AsciiLetters == (65..90) \cup (97..122)

AsciiDigits == 48..57

IdentChars == AsciiLetters \cup AsciiDigits \cup {95}

WhiteSpaceChars ==
  (9..13) \cup {32, 133, 160, 5760, 8232, 8233, 8239, 8287, 12288} \cup (8192..8202)

TaskText == <<116, 97, 115, 107>>

IsToken(x) == x.type = "token"

IsError(x) == x.type = "error"

\* the bytes of s in the byte range [from, from + n)
Bytes(s, from, n) == [k \in 1..n |-> ByteAt(s, from + k - 1)]

\* byte offset of the first non-whitespace char of s at or after offset i
RECURSIVE SkipWhiteSpace(_, _)
SkipWhiteSpace(s, i) ==
  IF i >= Len(s) THEN Len(s)
  ELSE IF CharAt(s, i) \in WhiteSpaceChars
    THEN SkipWhiteSpace(s, i + LenUtf8(CharAt(s, i)))
  ELSE i

\* some char of s before byte offset i takes more than one byte
MultiByteBefore(s, i) == \E j \in 0..(i - 1) : ByteAt(s, j) >= 128

\* C1: in every state of a Lexer the cursor lies within the input and the
\* remaining text is the suffix of the input that starts at the cursor.
C1_CursorInvariant ==
  /\ byte \in 0..Len(whole)
  /\ rest = [k \in 1..(Len(whole) - byte) |-> whole[byte + k]]

C1_Witness ==
  /\ IsToken(last)
  /\ byte < Len(whole)
  /\ last.offset > 0
  /\ MultiByteBefore(whole, last.offset)

\* C2: every returned token has a non-empty text that is the bytes of the
\* input from its byte offset on, and right after the call that returned
\* it the cursor is at the end of that text.
C2_TokenIsSlice ==
  /\ \A i \in 1..Len(items) :
       IsToken(items[i]) =>
         /\ Len(items[i].origin) > 0
         /\ items[i].offset >= 0
         /\ items[i].offset + Len(items[i].origin) <= Len(whole)
         /\ items[i].origin = Bytes(whole, items[i].offset, Len(items[i].origin))
  /\ IsToken(last) => byte = last.offset + Len(last.origin)

C2_Witness ==
  /\ IsToken(last)
  /\ Len(last.origin) > 1
  /\ MultiByteBefore(whole, last.offset)

\* C3: maximal munch: a token of kind Ident or Task starts with an ASCII
\* letter or underscore, consists of identifier characters only, and the
\* character of the input that follows it, if any, is not an identifier
\* character.
C3_MaximalMunch ==
  \A i \in 1..Len(items) :
    (IsToken(items[i]) /\ items[i].kind \in {"Ident", "Task"}) =>
      LET t == items[i]
          end == t.offset + Len(t.origin)
      IN  /\ Len(t.origin) > 0
          /\ t.origin[1] \in AsciiLetters \cup {95}
          /\ \A k \in 1..Len(t.origin) : t.origin[k] \in IdentChars
          /\ end < Len(whole) => ~(CharAt(whole, end) \in IdentChars)

C3_Witness ==
  /\ IsToken(last)
  /\ last.kind = "Ident"
  /\ \E k \in 2..(Len(last.origin) - 1) : last.origin[k] \in AsciiDigits

\* C4: a token of an identifier-shaped run has kind Task exactly when its
\* text is "task"; every other such run has kind Ident.
C4_KeywordIsWholeRun ==
  \A i \in 1..Len(items) :
    (IsToken(items[i]) /\ items[i].origin[1] \in AsciiLetters \cup {95}) =>
      /\ items[i].kind \in {"Task", "Ident"}
      /\ items[i].kind = "Task" <=> items[i].origin = TaskText

C4_Witness ==
  /\ IsToken(last)
  /\ last.kind = "Ident"
  /\ Len(last.origin) > 4
  /\ \E k \in 0..(Len(last.origin) - 4) : Bytes(last.origin, k, 4) = TaskText

\* C5: when the first non-whitespace character at the scan position is not
\* a brace, an ASCII letter or an underscore, the call returns an error for
\* that character: its byte offset, its UTF-8 length, the whole input as
\* source text, and the cursor ends right after the character.
C5_ErrorForOtherChar ==
  [][LET p == SkipWhiteSpace(whole, byte)
         c == CharAt(whole, p)
     IN  (last.type # "panic" /\ p < Len(whole)
            /\ ~(c \in {123, 125, 95} \cup AsciiLetters))
         => /\ IsError(last')
            /\ last'.token = c
            /\ last'.err_span.offset = p
            /\ last'.err_span.len = LenUtf8(c)
            /\ last'.src = whole
            /\ byte' = p + LenUtf8(c)
            /\ items' = Append(items, last')]_vars

C5_Witness ==
  /\ IsError(last)
  /\ last.err_span.len > 1
  /\ last.err_span.offset > 0
  /\ last.err_span.offset + last.err_span.len < Len(whole)

\* byte offset of an item: of a token's text, of an error's span
ItemOffset(x) == IF IsToken(x) THEN x.offset ELSE x.err_span.offset

\* byte offset right after an item
ItemEnd(x) ==
  IF IsToken(x) THEN x.offset + Len(x.origin) ELSE x.err_span.offset + x.err_span.len

\* item a of a lexer over w is item f of a lexer over the suffix of w at
\* byte offset d: the same item d bytes further, each error carrying the
\* input of its own lexer
SameShifted(a, f, d, w) ==
  /\ a.type = f.type
  /\ IsToken(a) =>
       /\ a.kind = f.kind
       /\ a.origin = f.origin
       /\ a.offset = f.offset + d
  /\ IsError(a) =>
       /\ a.token = f.token
       /\ a.err_span.offset = f.err_span.offset + d
       /\ a.err_span.len = f.err_span.len
       /\ a.src = w
       /\ f.src = [k \in 1..(Len(w) - d) |-> w[d + k]]

\* C6: after an error for the byte range [o, o+n) the lexer yields what a
\* fresh lexer over the input from o+n on yields, d = o+n bytes further: the
\* items yielded so far are a prefix of it, and all of it at end-of-input.
C6_ResumesAfterError ==
  \A i \in 1..Len(items) :
    IsError(items[i]) =>
      LET d == ItemEnd(items[i])
          fresh == Collect([k \in 1..(Len(whole) - d) |-> whole[d + k]])
          after == [k \in 1..(Len(items) - i) |-> items[i + k]]
      IN  /\ d \in 1..Len(whole)
          /\ Len(after) <= Len(fresh)
          /\ \A k \in 1..Len(after) : SameShifted(after[k], fresh[k], d, whole)
          /\ last.type = "eof" => Len(after) = Len(fresh)

C6_Witness ==
  /\ last.type = "eof"
  /\ Len(items) >= 3
  /\ IsError(items[1])
  /\ IsToken(items[2])
  /\ IsError(items[3])

\* C7: at end-of-input the whole input is consumed, and a call made after
\* an end-of-input returns end-of-input again and changes nothing.
C7_ExhaustionIsTerminal ==
  /\ [](last.type = "eof" => (byte = Len(whole) /\ rest = << >>))
  /\ [][last.type = "eof" =>
          /\ last'.type = "eof"
          /\ byte' = byte
          /\ rest' = rest
          /\ items' = items]_vars

C7_Witness ==
  /\ last.type = "eof"
  /\ Len(items) > 0
  /\ ItemEnd(items[Len(items)]) < Len(whole)

\* C8: the cursor never decreases and the remaining text never grows; a
\* call that returns a token or an error moves the cursor forward, and the
\* offsets of the items returned are strictly increasing.
C8_CursorMonotonic ==
  /\ [](\A i \in 1..Len(items), j \in 1..Len(items) :
          i < j => ItemOffset(items[i]) < ItemOffset(items[j]))
  /\ [][/\ byte' >= byte
        /\ Len(rest') <= Len(rest)
        /\ rest' = [k \in 1..Len(rest') |-> rest[Len(rest) - Len(rest') + k]]
        /\ items' # items => byte' > byte]_vars

C8_Witness ==
  /\ Len(items) >= 3
  /\ IsToken(items[1]) /\ items[1].kind = "Ident"
  /\ IsError(items[2])
  /\ IsToken(items[3]) /\ items[3].kind = "Ident"

\* C9: no call of next() aborts: the subtraction in identifier recognition
\* does not underflow and every slice is in bounds and on a character
\* boundary.
C9_NeverAborts == last.type # "panic"

C9_Witness ==
  /\ Len(items) >= 2
  /\ IsToken(items[1])
  /\ items[1].kind \in {"Ident", "Task"}
  /\ ByteAt(whole, ItemEnd(items[1])) >= 192
  /\ IsToken(last)
  /\ last.kind = "Ident"
  /\ ItemEnd(last) = Len(whole)

\* byte offset at which the scan for item i started
ScanStart(i) == IF i = 1 THEN 0 ELSE ItemEnd(items[i - 1])

\* C10: whitespace never becomes a token or an error: every item starts at
\* the first non-whitespace character at or after the end of the item
\* before it (the skipped characters counted by their UTF-8 length), and an
\* input without a non-whitespace character yields end-of-input at once.
C10_WhitespaceSkipped ==
  /\ \A i \in 1..Len(items) :
       /\ ItemOffset(items[i]) = SkipWhiteSpace(whole, ScanStart(i))
       /\ ItemOffset(items[i]) < Len(whole)
       /\ ~(CharAt(whole, ItemOffset(items[i])) \in WhiteSpaceChars)
       /\ IsError(items[i]) => ~(items[i].token \in WhiteSpaceChars)
  /\ (SkipWhiteSpace(whole, 0) = Len(whole) /\ last.type # "none") =>
       (last.type = "eof" /\ items = << >> /\ byte = Len(whole))

C10_Witness ==
  /\ Len(items) >= 2
  /\ ItemOffset(items[2]) >= ScanStart(2) + 3
  /\ \E j \in ScanStart(2)..(ItemOffset(items[2]) - 1) : ByteAt(whole, j) = 227

\* the text between "task " and " {}" of an input "task <ident> {}"
IdentOfInput == Bytes(whole, 5, Len(whole) - 8)

TaskIdentKinds == <<"Task", "Ident", "LeftBrace", "RightBrace">>

\* C11: an input "task " + s + " {}", s a non-empty run of ASCII letters and
\* digits not started by a digit and other than "task", yields no error and
\* exactly the tokens Task, Ident, LeftBrace, RightBrace before
\* end-of-input, the Ident with text s at offset 5.
C11_TaskIdentTokens ==
  IdentOfInput # TaskText =>
    /\ Len(items) <= 4
    /\ \A i \in 1..Len(items) :
         IsToken(items[i]) /\ items[i].kind = TaskIdentKinds[i]
    /\ Len(items) >= 2 => (items[2].origin = IdentOfInput /\ items[2].offset = 5)
    /\ last.type = "eof" => Len(items) = 4

C11_Witness ==
  /\ last.type = "eof"
  /\ Len(items) = 4
  /\ Len(IdentOfInput) = 4
  /\ Bytes(IdentOfInput, 0, 3) = <<116, 97, 115>>
  /\ IdentOfInput[4] \in AsciiDigits

\* the chars of the string s
RECURSIVE Chars(_)
Chars(s) ==
  IF s = << >> THEN << >>
  ELSE <<CharAt(s, 0)>> \o Chars([k \in 1..(Len(s) - LenUtf8(CharAt(s, 0))) |->
                                    s[LenUtf8(CharAt(s, 0)) + k]])

\* whitespace characters put in by the edits: ' ', '\n' and U+3000
WhiteSpaceSamples == {32, 10, 12288}

BraceChars == {123, 125}

\* cs with the char c put in after its first k chars
InsertAt(cs, k, c) == SubSeq(cs, 1, k) \o <<c>> \o SubSeq(cs, k + 1, Len(cs))

\* cs without its i-th char
DeleteAt(cs, i) == SubSeq(cs, 1, i - 1) \o SubSeq(cs, i + 1, Len(cs))

\* the place after the first k chars of cs is the start or the end of cs,
\* or lies next to a whitespace character or a brace
FreePlace(cs, k) ==
  \/ k = 0
  \/ k = Len(cs)
  \/ cs[k] \in WhiteSpaceChars \cup BraceChars
  \/ cs[k + 1] \in WhiteSpaceChars \cup BraceChars

\* the texts one whitespace edit away from cs: a whitespace character
\* replaced by another, one put into a whitespace run, next to a brace, at
\* the start or at the end, or one taken out of a longer whitespace run,
\* from beside a brace, from the start or from the end
WhiteSpaceEdits(cs) ==
  {[cs EXCEPT ![i] = c] : i \in {j \in 1..Len(cs) : cs[j] \in WhiteSpaceChars},
                          c \in WhiteSpaceSamples}
  \cup {InsertAt(cs, k, c) : k \in {j \in 0..Len(cs) : FreePlace(cs, j)},
                             c \in WhiteSpaceSamples}
  \cup {DeleteAt(cs, i) : i \in {j \in 1..Len(cs) :
                                   /\ cs[j] \in WhiteSpaceChars
                                   /\ FreePlace(DeleteAt(cs, j), j - 1)}}

\* an item without its offsets: kind and text, or the offending character
Unplaced(x) ==
  IF IsToken(x) THEN <<"token", x.kind, x.origin>> ELSE <<"error", x.token>>

UnplacedAll(xs) == [k \in 1..Len(xs) |-> Unplaced(xs[k])]

\* C12: the kinds and texts of the tokens and the offending characters of
\* the errors of an input are those of every input one whitespace edit away
\* from it; only offsets differ.
C12_WhitespaceEditsKeepItems ==
  last.type = "eof" =>
    \A cs \in WhiteSpaceEdits(Chars(whole)) :
      UnplacedAll(Collect(EncodeStr(cs))) = UnplacedAll(items)

C12_Witness ==
  /\ last.type = "eof"
  /\ Len(items) >= 2
  /\ IsToken(items[1]) /\ items[1].kind = "Ident"
  /\ IsToken(items[2]) /\ items[2].kind = "Ident"
  /\ ItemOffset(items[2]) = ItemEnd(items[1]) + 1

\* C13: a digit never starts a token: when the character at the scan
\* position, whitespace skipped, is a digit, the call returns an error for
\* that one digit, of span length 1, and the scan goes on at the next byte.
C13_DigitNeverStarts ==
  /\ [](\A i \in 1..Len(items) :
          IsToken(items[i]) => ~(items[i].origin[1] \in AsciiDigits))
  /\ [][LET p == SkipWhiteSpace(whole, byte)
        IN  (p < Len(whole) /\ ByteAt(whole, p) \in AsciiDigits)
            => /\ IsError(last')
               /\ last'.token = ByteAt(whole, p)
               /\ last'.err_span = [offset |-> p, len |-> 1]
               /\ byte' = p + 1
               /\ rest' = [k \in 1..(Len(whole) - p - 1) |-> whole[p + 1 + k]]]_vars

C13_Witness ==
  /\ Len(items) = 2
  /\ IsError(items[1])
  /\ items[1].token \in AsciiDigits
  /\ items[1].err_span.offset = 0
  /\ IsToken(items[2])
  /\ items[2].kind = "Ident"
  /\ items[2].offset = 1

\* C14: a non-ASCII character that is not whitespace is never part of a
\* token: it ends the identifier run before it and is reported as an error
\* whose span is its UTF-8 bytes.
C14_AsciiOnlyIdentifiers ==
  /\ \A i \in 1..Len(items) :
       IsToken(items[i]) => \A k \in 1..Len(items[i].origin) : items[i].origin[k] < 128
  /\ last.type = "eof" =>
       \A p \in 0..(Len(whole) - 1) :
         (ByteAt(whole, p) >= 192 /\ ~(CharAt(whole, p) \in WhiteSpaceChars)) =>
           \E i \in 1..Len(items) :
             /\ IsError(items[i])
             /\ items[i].token = CharAt(whole, p)
             /\ items[i].err_span = [offset |-> p, len |-> LenUtf8(CharAt(whole, p))]

C14_Witness ==
  /\ last.type = "eof"
  /\ Len(items) = 2
  /\ IsToken(items[1])
  /\ items[1].kind = "Ident"
  /\ Len(items[1].origin) >= 2
  /\ IsError(items[2])
  /\ items[2].token = 233
  /\ items[2].err_span = [offset |-> ItemEnd(items[1]), len |-> 2]

\* the newline characters of the input before byte offset p
NewlineCount(p) == Cardinality({j \in 0..(p - 1) : ByteAt(whole, j) = 10})

\* "  #" and "task foo {}\n$"
HashInput == <<32, 32, 35>>

DollarInput == <<116, 97, 115, 107, 32, 102, 111, 111, 32, 123, 125, 10, 36>>

\* C15: the line of an error is 1 plus the number of newline characters of
\* the input before the offending character; it is 1 for "  #" (offset 2)
\* and 2 for "task foo {}\n$" (offset 12).
C15_ErrorLine ==
  /\ \A i \in 1..Len(items) :
       IsError(items[i]) =>
         Line(items[i]) = 1 + NewlineCount(SkipWhiteSpace(whole, ScanStart(i)))
  /\ (whole = HashInput /\ Len(items) >= 1) =>
       /\ IsError(items[1])
       /\ items[1].err_span.offset = 2
       /\ Line(items[1]) = 1
  /\ (whole = DollarInput /\ Len(items) >= 5) =>
       /\ IsError(items[5])
       /\ items[5].err_span.offset = 12
       /\ Line(items[5]) = 2

C15_Witness ==
  /\ whole = DollarInput
  /\ Len(items) = 5
  /\ IsError(last)
  /\ last.token = 36

\* byte offset of the first character of s at or after offset i that no
\* token can hold, Len(s) when there is none: a character that is neither
\* whitespace, a brace nor an identifier character, or a digit outside an
\* identifier run (run: offset i is inside one)
RECURSIVE FirstUnrecognized(_, _, _)
FirstUnrecognized(s, i, run) ==
  IF i >= Len(s) THEN Len(s)
  ELSE LET c == CharAt(s, i)
       IN  IF c \in AsciiLetters \cup {95} THEN FirstUnrecognized(s, i + 1, TRUE)
           ELSE IF c \in AsciiDigits /\ run THEN FirstUnrecognized(s, i + 1, TRUE)
           ELSE IF c \in WhiteSpaceChars \cup BraceChars
             THEN FirstUnrecognized(s, i + LenUtf8(c), FALSE)
           ELSE i

\* C16: collecting into one all-or-nothing result ends at the first error:
\* the result is the error of the first unrecognized character of the
\* input, nothing is asked of the lexer after it, and an input without an
\* unrecognized character gives the list of all its tokens.
C16_CollectStopsAtFirstError ==
  /\ [](IsError(last) =>
          /\ last.err_span.offset = FirstUnrecognized(whole, 0, FALSE)
          /\ last.token = CharAt(whole, last.err_span.offset)
          /\ byte = ItemEnd(last)
          /\ \A i \in 1..(Len(items) - 1) : IsToken(items[i]))
  /\ [](last.type = "eof" =>
          /\ FirstUnrecognized(whole, 0, FALSE) = Len(whole)
          /\ items = Collect(whole)
          /\ \A i \in 1..Len(items) : IsToken(items[i]))
  /\ [][~IsError(last)]_vars

C16_Witness ==
  /\ IsError(last)
  /\ Len(items) >= 2
  /\ FirstUnrecognized(whole, byte, FALSE) < Len(whole)

\* the number of characters of the input
CharCount == Cardinality({p \in 0..(Len(whole) - 1) : ~(ByteAt(whole, p) \in 128..191)})

\* C17: scanning finishes: a call either consumes input or reports
\* end-of-input, a lexer yields no more items than its input has
\* characters, and a consumer that keeps calling receives end-of-input.
C17_ScanningFinishes ==
  /\ [](Len(items) <= CharCount)
  /\ [][last'.type = "eof" \/ byte' > byte]_vars
  /\ <>(last.type = "eof")

C17_Witness ==
  /\ last.type = "eof"
  /\ Len(items) = CharCount
  /\ CharCount >= 3
  /\ \E i \in 1..Len(items) : IsError(items[i]) /\ items[i].err_span.len > 1

\* the items whose byte range holds byte offset p
Covering(p) == {i \in 1..Len(items) : ItemOffset(items[i]) <= p /\ p < ItemEnd(items[i])}

BraceKind(b) == IF b = 123 THEN "LeftBrace" ELSE "RightBrace"

\* C18: a brace is a one-byte token of its own wherever it stands: each
\* '{' of the input yields exactly one LeftBrace with text "{" and each '}'
\* exactly one RightBrace with text "}" at the brace's byte offset, and no
\* brace is reported as an error.
C18_BracesAreTokens ==
  /\ \A i \in 1..Len(items) :
       /\ IsError(items[i]) => ~(items[i].token \in BraceChars)
       /\ (IsToken(items[i]) /\ items[i].kind \in {"LeftBrace", "RightBrace"}) =>
            /\ Len(items[i].origin) = 1
            /\ items[i].origin[1] \in BraceChars
            /\ items[i].kind = BraceKind(items[i].origin[1])
  /\ last.type = "eof" =>
       \A p \in 0..(Len(whole) - 1) :
         ByteAt(whole, p) \in BraceChars =>
           /\ Cardinality(Covering(p)) = 1
           /\ \A i \in Covering(p) :
                items[i] = [type |-> "token", kind |-> BraceKind(ByteAt(whole, p)),
                            origin |-> <<ByteAt(whole, p)>>, offset |-> p]

C18_Witness ==
  /\ last.type = "eof"
  /\ Len(items) = 4
  /\ IsToken(items[1]) /\ items[1].kind = "Ident"
  /\ IsToken(items[2]) /\ items[2].kind = "RightBrace"
  /\ items[2].offset = ItemEnd(items[1])
  /\ IsToken(items[3]) /\ items[3].kind = "RightBrace"
  /\ IsToken(items[4]) /\ items[4].kind = "LeftBrace"

\* byte offset of the first byte of the character that holds byte offset p
CharStart(p) ==
  CHOOSE q \in 0..p :
    /\ ~(ByteAt(whole, q) \in 128..191)
    /\ \A k \in (q + 1)..p : ByteAt(whole, k) \in 128..191

\* C19: nothing is lost or counted twice: at end-of-input the byte ranges
\* of the items are in increasing order and disjoint, every byte of a
\* character that is not whitespace lies in exactly one of them and no byte
\* of a whitespace character lies in any.
C19_ExactCover ==
  last.type = "eof" =>
    /\ \A i \in 1..Len(items) : ItemOffset(items[i]) < ItemEnd(items[i])
    /\ \A i \in 1..(Len(items) - 1) : ItemEnd(items[i]) <= ItemOffset(items[i + 1])
    /\ \A p \in 0..(Len(whole) - 1) :
         IF CharAt(whole, CharStart(p)) \in WhiteSpaceChars
           THEN Covering(p) = {}
         ELSE Cardinality(Covering(p)) = 1

C19_Witness ==
  /\ last.type = "eof"
  /\ \E p \in 0..(Len(whole) - 1) : Covering(p) = {} /\ ByteAt(whole, p) >= 128
  /\ \E i \in 1..Len(items) : IsError(items[i]) /\ items[i].err_span.len = 2
  /\ \E i \in 1..Len(items) : IsToken(items[i]) /\ Len(items[i].origin) >= 2

\* the fields and the history of the first lexer
first == <<whole, rest, byte, last, items>>

====
